---------------------------- MODULE Spec2Model ----------------------------
(***************************************************************************)
(* Model of the Sabore sales-analytics engine: DataProcessor               *)
(* (src/data_processor.py) and SaboreAnalytics (src/analytics.py), of the  *)
(* fallback of SaboreAPIClient (src/api_client.py) and of the load cycle   *)
(* of the dashboard (src/workers.py, src/modern_app.py).                   *)
(*                                                                         *)
(* Conventions                                                             *)
(*   - a Python dict with optional keys is a TLA+ record; d.get(k, v) is   *)
(*     a DOMAIN test.  A dict whose insertion order matters (the maps the  *)
(*     operations return) is a sequence of <<key, value>> pairs.           *)
(*   - money is an integer number of centavos; a float quotient a / b is   *)
(*     the exact fraction [num |-> a, den |-> b].                          *)
(*   - a str is a sequence of character codes (ASCII), compared the way    *)
(*     Python compares str: lexicographically by code point.               *)
(*   - a point in time is a record [ano, mes, dia, hora, tz]; tz = TRUE    *)
(*     is an offset-aware datetime, tz = FALSE a naive one.  The wall      *)
(*     clock datetime.now() is naive and kept as a number of hours.        *)
(***************************************************************************)
EXTENDS Integers, Sequences, FiniteSets, TLC

\* ------------------------------------------------------------- bounds
MaxPedidos == 3
MaxLimite == 3
MaxDias == 2
MaxFuturos == 2
MaxRelogio == 1
MaxLote == 9

\* ------------------------------------------------------ dict helpers
\* Python's None, as the value of a key that is present
None == [tipo |-> "None"]

Has(d, k) == k \in DOMAIN d

Get(d, k, padrao) == IF k \in DOMAIN d THEN d[k] ELSE padrao

RECURSIVE IndexOfKey(_, _, _)
IndexOfKey(mapa, chave, i) ==
    IF i > Len(mapa) THEN 0
    ELSE IF mapa[i][1] = chave THEN i
    ELSE IndexOfKey(mapa, chave, i + 1)

\* mapa[chave] = v: the value is overwritten, not accumulated
SetTo(mapa, chave, v) ==
    LET i == IndexOfKey(mapa, chave, 1)
    IN  IF i = 0 THEN Append(mapa, <<chave, v>>)
        ELSE [mapa EXCEPT ![i] = <<chave, v>>]

\* mapa[chave] = mapa.get(chave, 0) + v, a new key going to the end
\* (Python dicts keep insertion order)
AddTo(mapa, chave, v) ==
    LET i == IndexOfKey(mapa, chave, 1)
    IN  IF i = 0 THEN Append(mapa, <<chave, v>>)
        ELSE [mapa EXCEPT ![i] = <<chave, mapa[i][2] + v>>]

Values(mapa) == [i \in 1..Len(mapa) |-> mapa[i][2]]

RECURSIVE SumSeq(_)
SumSeq(s) == IF s = <<>> THEN 0 ELSE Head(s) + SumSeq(Tail(s))

\* ---------------------------------------------------------- str
Digito(d) == 48 + d

RECURSIVE IntStr(_)
IntStr(n) == IF n < 10 THEN <<Digito(n)>>
             ELSE IntStr(n \div 10) \o <<Digito(n % 10)>>

RECURSIVE ZeroPad(_, _)
ZeroPad(s, largura) == IF Len(s) >= largura THEN s
                       ELSE ZeroPad(<<Digito(0)>> \o s, largura)

RECURSIVE StrLtFrom(_, _, _)
StrLtFrom(a, b, i) ==
    IF i > Len(a) THEN i <= Len(b)
    ELSE IF i > Len(b) THEN FALSE
    ELSE IF a[i] # b[i] THEN a[i] < b[i]
    ELSE StrLtFrom(a, b, i + 1)

StrLt(a, b) == StrLtFrom(a, b, 1)

\* ---------------------------------------------------------- calendar
IsLeap(ano) == ano % 4 = 0 /\ (ano % 100 # 0 \/ ano % 400 = 0)

DaysInMonth(ano, mes) ==
    IF mes = 2 THEN (IF IsLeap(ano) THEN 29 ELSE 28)
    ELSE IF mes \in {4, 6, 9, 11} THEN 30 ELSE 31

DaysBeforeYear(ano) ==
    LET y == ano - 1 IN y * 365 + y \div 4 - y \div 100 + y \div 400

RECURSIVE DaysBeforeMonth(_, _)
DaysBeforeMonth(ano, mes) ==
    IF mes = 1 THEN 0
    ELSE DaysBeforeMonth(ano, mes - 1) + DaysInMonth(ano, mes - 1)

\* proleptic Gregorian ordinal, 0001-01-01 being day 1
ToOrdinal(dt) == DaysBeforeYear(dt.ano) + DaysBeforeMonth(dt.ano, dt.mes) + dt.dia

\* Monday = 0 ... Sunday = 6
Weekday(dt) == (ToOrdinal(dt) + 6) % 7

IsoWeek1Monday(ano) ==
    LET firstday == DaysBeforeYear(ano) + 1
        firstweekday == (firstday + 6) % 7
    IN  IF firstweekday > 3 THEN firstday - firstweekday + 7
        ELSE firstday - firstweekday

\* datetime.isocalendar(): <<ISO year, ISO week, ISO weekday>>
IsoCalendar(dt) ==
    LET today == ToOrdinal(dt)
        w == (today - IsoWeek1Monday(dt.ano)) \div 7
    IN  IF today < IsoWeek1Monday(dt.ano)
        THEN <<dt.ano - 1,
               (today - IsoWeek1Monday(dt.ano - 1)) \div 7 + 1,
               Weekday(dt) + 1>>
        ELSE IF w >= 52 /\ today >= IsoWeek1Monday(dt.ano + 1)
        THEN <<dt.ano + 1, 1, Weekday(dt) + 1>>
        ELSE <<dt.ano, w + 1, Weekday(dt) + 1>>

\* the names of a week that starts on Sunday
DayNameDomingo(dt) ==
    <<"Sunday", "Monday", "Tuesday", "Wednesday", "Thursday", "Friday",
      "Saturday">>[Weekday(dt) + 1]

DayName(dt) ==
    <<"Monday", "Tuesday", "Wednesday", "Thursday",
      "Friday", "Saturday", "Sunday">>[Weekday(dt) + 1]

MonthName(dt) ==
    <<"January", "February", "March", "April", "May", "June", "July",
      "August", "September", "October", "November", "December">>[dt.mes]

\* hours since 0001-01-01T00:00 of a datetime's own clock reading
Horas(dt) == (ToOrdinal(dt) - 1) * 24 + dt.hora


\* ------------------------------------------------- timestamp handling
\* datetime.fromisoformat(texto.replace('Z', '+00:00')): ValueError unless
\* the text is ISO-8601 with fields in range; a Z suffix yields an
\* offset-aware value
FromIsoFormat(s) ==
    IF /\ s.forma = "iso"
       /\ s.mes \in 1..12
       /\ s.dia \in 1..DaysInMonth(s.ano, s.mes)
       /\ s.hora \in 0..23
    THEN [ok |-> TRUE,
          dt |-> [tipo |-> "datetime", ano |-> s.ano, mes |-> s.mes,
                  dia |-> s.dia, hora |-> s.hora, tz |-> s.z]]
    ELSE [ok |-> FALSE]

\* `not data_pedido`: a missing key (None) or the empty string
Falsy(pedido) ==
    \/ ~Has(pedido, "data_pedido")
    \/ pedido.data_pedido = None
    \/ (pedido.data_pedido.tipo = "str" /\ pedido.data_pedido.forma = "vazia")

\* The guard and the conversion every time-keyed loop starts with:
\* [ok |-> FALSE] when the record is skipped (continue, or an exception
\* caught by the loop's except), else the datetime the loop body uses.
\* A value that is neither str nor datetime is passed on as it is and
\* fails (AttributeError) at its first use as a datetime.
ConverterData(pedido) ==
    IF Falsy(pedido) THEN [ok |-> FALSE]
    ELSE IF pedido.data_pedido.tipo = "str"
         THEN FromIsoFormat(pedido.data_pedido)
    ELSE IF pedido.data_pedido.tipo = "datetime"
         THEN [ok |-> TRUE, dt |-> pedido.data_pedido]
    ELSE [ok |-> FALSE]

\* ------------------------------------------------------ DataProcessor
RECURSIVE SomaItens(_)
SomaItens(itens) ==
    IF itens = <<>> THEN 0
    ELSE Get(Head(itens), "valor", 0) * Get(Head(itens), "quantidade", 1)
         + SomaItens(Tail(itens))

\* an order valued by its line items only
ValorPedidoSoItens(pedido) ==
    IF Has(pedido, "itens") THEN SomaItens(pedido.itens) ELSE 0

ValorPedido(pedido) ==
    IF Has(pedido, "itens") THEN SomaItens(pedido.itens)
    ELSE Get(pedido, "valor_total", 0)

\* `item.get(...)` on a line item that is None: AttributeError,
\* 'NoneType' object has no attribute 'get'
ItensNulos(pedido) ==
    Has(pedido, "itens") /\ \E k \in 1..Len(pedido.itens) : pedido.itens[k] = None

\* some order of the list stops the loop over its line items
IteraNulo(pedidos) == \E i \in 1..Len(pedidos) : ItensNulos(pedidos[i])

RECURSIVE calcular_vendas_totais(_)
calcular_vendas_totais(pedidos) ==
    IF pedidos = <<>> THEN 0
    ELSE ValorPedido(Head(pedidos)) + calcular_vendas_totais(Tail(pedidos))

Hifen == <<45>>

StrftimeDia(dt) ==
    ZeroPad(IntStr(dt.ano), 4) \o Hifen \o ZeroPad(IntStr(dt.mes), 2)
        \o Hifen \o ZeroPad(IntStr(dt.dia), 2)

StrftimeMes(dt) ==
    ZeroPad(IntStr(dt.ano), 4) \o Hifen \o ZeroPad(IntStr(dt.mes), 2)

\* f"{data.year}-S{data.isocalendar()[1]}"
ChaveSemana(dt) == IntStr(dt.ano) \o Hifen \o <<83>> \o IntStr(IsoCalendar(dt)[2])

ChavePeriodo(dt, tipo_periodo) ==
    IF tipo_periodo = "dia" THEN StrftimeDia(dt)
    ELSE IF tipo_periodo = "semana" THEN ChaveSemana(dt)
    ELSE IF tipo_periodo = "mes" THEN StrftimeMes(dt)
    ELSE StrftimeDia(dt)

\* sorted(d.items()) for a dict with str keys: the keys are pairwise
\* distinct, so the order is the keys' order
RECURSIVE InsertByStrKey(_, _)
InsertByStrKey(ordenado, par) ==
    IF ordenado = <<>> THEN <<par>>
    ELSE IF StrLt(par[1], Head(ordenado)[1]) THEN <<par>> \o ordenado
    ELSE <<Head(ordenado)>> \o InsertByStrKey(Tail(ordenado), par)

\* the dict as the loop left it, in insertion order
NaoOrdenado(mapa) == mapa

RECURSIVE SortedByStrKey(_)
SortedByStrKey(mapa) ==
    IF mapa = <<>> THEN <<>>
    ELSE InsertByStrKey(SortedByStrKey(SubSeq(mapa, 1, Len(mapa) - 1)),
                        mapa[Len(mapa)])

\* the insertion that keeps the keys in descending order
RECURSIVE InsertByIntKeyDesc(_, _)
InsertByIntKeyDesc(ordenado, par) ==
    IF ordenado = <<>> THEN <<par>>
    ELSE IF par[1] > Head(ordenado)[1] THEN <<par>> \o ordenado
    ELSE <<Head(ordenado)>> \o InsertByIntKeyDesc(Tail(ordenado), par)

RECURSIVE InsertByIntKey(_, _)
InsertByIntKey(ordenado, par) ==
    IF ordenado = <<>> THEN <<par>>
    ELSE IF par[1] < Head(ordenado)[1] THEN <<par>> \o ordenado
    ELSE <<Head(ordenado)>> \o InsertByIntKey(Tail(ordenado), par)

RECURSIVE SortedByIntKey(_)
SortedByIntKey(mapa) ==
    IF mapa = <<>> THEN <<>>
    ELSE InsertByIntKey(SortedByIntKey(SubSeq(mapa, 1, Len(mapa) - 1)),
                        mapa[Len(mapa)])

\* the loop given up at the first record whose conversion raises
RECURSIVE AgruparLoopInterrompe(_, _, _)
AgruparLoopInterrompe(pedidos, tipo_periodo, vendas_por_periodo) ==
    IF pedidos = <<>> THEN vendas_por_periodo
    ELSE LET pedido == Head(pedidos)
             c == ConverterData(pedido)
         IN  IF ~c.ok /\ ~Falsy(pedido) THEN vendas_por_periodo
             ELSE AgruparLoopInterrompe(Tail(pedidos), tipo_periodo,
                      IF c.ok
                      THEN AddTo(vendas_por_periodo,
                                 ChavePeriodo(c.dt, tipo_periodo),
                                 Get(pedido, "valor_total", 0))
                      ELSE vendas_por_periodo)

RECURSIVE AgruparLoop(_, _, _)
AgruparLoop(pedidos, tipo_periodo, vendas_por_periodo) ==
    IF pedidos = <<>> THEN vendas_por_periodo
    ELSE LET pedido == Head(pedidos)
             c == ConverterData(pedido)
         IN  AgruparLoop(Tail(pedidos), tipo_periodo,
                 IF c.ok
                 THEN AddTo(vendas_por_periodo,
                            ChavePeriodo(c.dt, tipo_periodo),
                            Get(pedido, "valor_total", 0))
                 ELSE vendas_por_periodo)

agrupar_por_periodo(pedidos, tipo_periodo) ==
    SortedByStrKey(AgruparLoop(pedidos, tipo_periodo, <<>>))

\* contador_itens as the sequence of its values, in insertion order
RECURSIVE IndexOfNome(_, _, _)
IndexOfNome(contador, nome, i) ==
    IF i > Len(contador) THEN 0
    ELSE IF contador[i].nome = nome THEN i
    ELSE IndexOfNome(contador, nome, i + 1)

\* the value accumulated without the quantity
ContarItemSemQuantidade(contador, item) ==
    LET nome == Get(item, "nome", "Item sem nome")
        quantidade == Get(item, "quantidade", 1)
        valor == Get(item, "preco_unitario", Get(item, "valor", 0))
        i == IndexOfNome(contador, nome, 1)
        base == IF i = 0
                THEN Append(contador, [quantidade_total |-> 0,
                                       valor_total |-> 0, nome |-> nome])
                ELSE contador
        j == IF i = 0 THEN Len(base) ELSE i
    IN  [base EXCEPT ![j] =
            [quantidade_total |-> base[j].quantidade_total + quantidade,
             valor_total |-> base[j].valor_total + valor,
             nome |-> nome]]

ContarItem(contador, item) ==
    LET nome == Get(item, "nome", "Item sem nome")
        quantidade == Get(item, "quantidade", 1)
        valor == Get(item, "preco_unitario", Get(item, "valor", 0))
        i == IndexOfNome(contador, nome, 1)
        base == IF i = 0
                THEN Append(contador, [quantidade_total |-> 0,
                                       valor_total |-> 0, nome |-> nome])
                ELSE contador
        j == IF i = 0 THEN Len(base) ELSE i
    IN  [base EXCEPT ![j] =
            [quantidade_total |-> base[j].quantidade_total + quantidade,
             valor_total |-> base[j].valor_total + valor * quantidade,
             nome |-> nome]]

RECURSIVE ContarItens(_, _)
ContarItens(itens, contador) ==
    IF itens = <<>> THEN contador
    ELSE ContarItens(Tail(itens), ContarItem(contador, Head(itens)))

RECURSIVE ContadorItens(_, _)
ContadorItens(pedidos, contador) ==
    IF pedidos = <<>> THEN contador
    ELSE ContadorItens(Tail(pedidos),
             IF Has(Head(pedidos), "itens")
             THEN ContarItens(Head(pedidos).itens, contador)
             ELSE contador)

\* sorted(..., key=quantidade_total, reverse=True): descending and stable,
\* entries with equal keys keep their original relative order
\* an ascending sort then reversed: entries with equal keys end up in
\* the reverse of their original order
RECURSIVE InsertByQuantidadeReverso(_, _)
InsertByQuantidadeReverso(ordenado, x) ==
    IF ordenado = <<>> THEN <<x>>
    ELSE IF x.quantidade_total >= Head(ordenado).quantidade_total
         THEN <<x>> \o ordenado
    ELSE <<Head(ordenado)>> \o InsertByQuantidadeReverso(Tail(ordenado), x)

RECURSIVE InsertByQuantidadeDesc(_, _)
InsertByQuantidadeDesc(ordenado, x) ==
    IF ordenado = <<>> THEN <<x>>
    ELSE IF x.quantidade_total > Head(ordenado).quantidade_total
         THEN <<x>> \o ordenado
    ELSE <<Head(ordenado)>> \o InsertByQuantidadeDesc(Tail(ordenado), x)

RECURSIVE SortedByQuantidadeDesc(_)
SortedByQuantidadeDesc(s) ==
    IF s = <<>> THEN <<>>
    ELSE InsertByQuantidadeDesc(
             SortedByQuantidadeDesc(SubSeq(s, 1, Len(s) - 1)), s[Len(s)])

\* s[:limite], a negative limite counting from the end
SliceAte(s, limite) ==
    IF limite >= 0
    THEN SubSeq(s, 1, IF limite < Len(s) THEN limite ELSE Len(s))
    ELSE SubSeq(s, 1, IF Len(s) + limite > 0 THEN Len(s) + limite ELSE 0)

itens_mais_populares(pedidos, limite) ==
    SliceAte(SortedByQuantidadeDesc(ContadorItens(pedidos, <<>>)), limite)

\* a float quotient, kept exact
Frac(a, b) == [num |-> a, den |-> b]

calcular_ticket_medio(pedidos) ==
    IF pedidos = <<>> THEN Frac(0, 1)
    ELSE Frac(calcular_vendas_totais(pedidos), Len(pedidos))

RECURSIVE HorariosLoop(_, _)
HorariosLoop(pedidos, contador_horarios) ==
    IF pedidos = <<>> THEN contador_horarios
    ELSE LET c == ConverterData(Head(pedidos))
         IN  HorariosLoop(Tail(pedidos),
                 IF c.ok THEN AddTo(contador_horarios, c.dt.hora, 1)
                 ELSE contador_horarios)

horarios_pico(pedidos) == SortedByIntKey(HorariosLoop(pedidos, <<>>))

RECURSIVE DiasSemanaLoop(_, _)
DiasSemanaLoop(pedidos, vendas_por_dia) ==
    IF pedidos = <<>> THEN vendas_por_dia
    ELSE LET c == ConverterData(Head(pedidos))
         IN  DiasSemanaLoop(Tail(pedidos),
                 IF c.ok
                 THEN AddTo(vendas_por_dia, DayName(c.dt),
                            Get(Head(pedidos), "valor_total", 0))
                 ELSE vendas_por_dia)

dias_semana_performance(pedidos) == DiasSemanaLoop(pedidos, <<>>)

RECURSIVE SazonalidadeLoop(_, _)
SazonalidadeLoop(pedidos, vendas_por_mes) ==
    IF pedidos = <<>> THEN vendas_por_mes
    ELSE LET c == ConverterData(Head(pedidos))
         IN  SazonalidadeLoop(Tail(pedidos),
                 IF c.ok
                 THEN AddTo(vendas_por_mes, MonthName(c.dt),
                            Get(Head(pedidos), "valor_total", 0))
                 ELSE vendas_por_mes)

\* the months counted only up to the month numbered by the argument
RECURSIVE SazonalidadeAteMes(_, _)
SazonalidadeAteMes(pedidos, meses) ==
    IF pedidos = <<>> THEN <<>>
    ELSE LET c == ConverterData(Head(pedidos))
             resto == SazonalidadeAteMes(Tail(pedidos), meses)
         IN  IF c.ok /\ c.dt.mes <= meses
             THEN AddTo(resto, MonthName(c.dt),
                        Get(Head(pedidos), "valor_total", 0))
             ELSE resto

analise_sazonalidade(pedidos, meses) == SazonalidadeLoop(pedidos, <<>>)

\* Comparing a datetime with the naive datetime.now(): TypeError for an
\* offset-aware value, and the loop's except skips the record.
Comparavel(c) == c.ok /\ ~c.dt.tz

NoPeriodoAtual(pedido, agora, dias) ==
    LET c == ConverterData(pedido)
    IN  Comparavel(c) /\ Horas(c.dt) >= agora - 24 * dias

NoPeriodoAnterior(pedido, agora, dias) ==
    LET c == ConverterData(pedido)
    IN  /\ Comparavel(c)
        /\ ~(Horas(c.dt) >= agora - 24 * dias)
        /\ Horas(c.dt) >= agora - 24 * dias - 24 * dias
        /\ Horas(c.dt) < agora - 24 * dias

RECURSIVE VendasAtual(_, _, _)
VendasAtual(pedidos, agora, dias) ==
    IF pedidos = <<>> THEN <<>>
    ELSE (IF NoPeriodoAtual(Head(pedidos), agora, dias)
          THEN <<Head(pedidos)>> ELSE <<>>)
         \o VendasAtual(Tail(pedidos), agora, dias)

RECURSIVE VendasAnterior(_, _, _)
VendasAnterior(pedidos, agora, dias) ==
    IF pedidos = <<>> THEN <<>>
    ELSE (IF NoPeriodoAnterior(Head(pedidos), agora, dias)
          THEN <<Head(pedidos)>> ELSE <<>>)
         \o VendasAnterior(Tail(pedidos), agora, dias)

\* round(num / den, 0) for den > 0: to the nearest integer, ties to even
RoundHalfEven(num, den) ==
    LET q == num \div den
        r == num % den
    IN  IF 2 * r < den THEN q
        ELSE IF 2 * r > den THEN q + 1
        ELSE IF q % 2 = 0 THEN q ELSE q + 1

\* What a call gives back: a value, or the exception it raised.
Ok(v) == [erro |-> "", valor |-> v]

Raise(e) == [erro |-> e, valor |-> 0]

\* round(num / den * 100, 2) in hundredths of a percent
PercentRound(num, den) ==
    IF den = 0 THEN Raise("ZeroDivisionError")
    ELSE IF den > 0 THEN Ok(RoundHalfEven(num * 10000, den))
    ELSE Ok(RoundHalfEven((0 - num) * 10000, 0 - den))

\* the quotient taken without looking at the previous total first
CrescimentoSemGuarda(total_atual, total_anterior) ==
    PercentRound(total_atual - total_anterior, total_anterior)

\* The result in hundredths of a percent: 100.0 is 10000.
Crescimento(total_atual, total_anterior) ==
    IF total_anterior = 0
    THEN Ok(IF total_atual > 0 THEN 10000 ELSE 0)
    ELSE PercentRound(total_atual - total_anterior, total_anterior)

calcular_crescimento_vendas(pedidos, dias, agora) ==
    LET vendas_atual == VendasAtual(pedidos, agora, dias)
        vendas_anterior == VendasAnterior(pedidos, agora, dias)
    IN  IF IteraNulo(vendas_atual) \/ IteraNulo(vendas_anterior)
        THEN Raise("AttributeError")
        ELSE Crescimento(calcular_vendas_totais(vendas_atual),
                         calcular_vendas_totais(vendas_anterior))

\* ---------------------------------------------------- SaboreAnalytics
DiasPadrao == 30

LimitePadrao == 10

FuturosPadrao == 7

MesesPadrao == 12

\* the quotient computed with integer division
TicketMedioInteiro(vendas_totais, total_pedidos) ==
    IF total_pedidos > 0 THEN Frac(vendas_totais \div total_pedidos, 1)
    ELSE Frac(0, 1)

TicketMedio(vendas_totais, total_pedidos) ==
    IF total_pedidos > 0 THEN Frac(vendas_totais, total_pedidos)
    ELSE Frac(0, 1)

calcular_metricas_principais(pedidos, agora) ==
    IF pedidos = <<>>
    THEN Ok([vendas_totais |-> 0, ticket_medio |-> Frac(0, 1),
             total_pedidos |-> 0, crescimento_percentual |-> 0])
    ELSE IF IteraNulo(pedidos) THEN Raise("AttributeError")
    ELSE LET vendas_totais == calcular_vendas_totais(pedidos)
             total_pedidos == Len(pedidos)
             crescimento ==
                 calcular_crescimento_vendas(pedidos, DiasPadrao, agora)
         IN  IF crescimento.erro # "" THEN crescimento
             ELSE Ok([vendas_totais |-> vendas_totais,
                      ticket_medio |->
                          TicketMedio(vendas_totais, total_pedidos),
                      total_pedidos |-> total_pedidos,
                      crescimento_percentual |-> crescimento.valor])

ValoresPedidos(pedidos) ==
    [i \in 1..Len(pedidos) |-> Get(pedidos[i], "valor_total", 0)]

RECURSIVE InsertInt(_, _)
InsertInt(ordenado, x) ==
    IF ordenado = <<>> THEN <<x>>
    ELSE IF x < Head(ordenado) THEN <<x>> \o ordenado
    ELSE <<Head(ordenado)>> \o InsertInt(Tail(ordenado), x)

RECURSIVE SortedInts(_)
SortedInts(s) ==
    IF s = <<>> THEN <<>>
    ELSE InsertInt(SortedInts(SubSeq(s, 1, Len(s) - 1)), s[Len(s)])

\* statistics.median
Median(valores) ==
    LET o == SortedInts(valores)
        n == Len(o)
    IN  IF n % 2 = 1 THEN Frac(o[(n + 1) \div 2], 1)
        ELSE Frac(o[n \div 2] + o[n \div 2 + 1], 2)

RECURSIVE SumSqDev(_, _, _)
SumSqDev(valores, n, soma) ==
    IF valores = <<>> THEN 0
    ELSE (n * Head(valores) - soma) * (n * Head(valores) - soma)
         + SumSqDev(Tail(valores), n, soma)

\* statistics.stdev is the square root of the sample variance
\* sum((x - mean)^2) / (n - 1); the value is kept as its square
Variance(valores) ==
    LET n == Len(valores)
    IN  Frac(SumSqDev(valores, n, SumSeq(valores)), n * n * (n - 1))

\* the comparison of the maximum turned around
RECURSIVE IndexOfMaxInvertido(_, _, _)
IndexOfMaxInvertido(valores, i, melhor) ==
    IF i > Len(valores) THEN melhor
    ELSE IndexOfMaxInvertido(valores, i + 1,
                             IF valores[i] < valores[melhor] THEN i
                             ELSE melhor)

\* max(pedidos, key=valor_total) and min(...): the first extreme record
RECURSIVE IndexOfMax(_, _, _)
IndexOfMax(valores, i, melhor) ==
    IF i > Len(valores) THEN melhor
    ELSE IndexOfMax(valores, i + 1,
                    IF valores[i] > valores[melhor] THEN i ELSE melhor)

RECURSIVE IndexOfMin(_, _, _)
IndexOfMin(valores, i, melhor) ==
    IF i > Len(valores) THEN melhor
    ELSE IndexOfMin(valores, i + 1,
                    IF valores[i] < valores[melhor] THEN i ELSE melhor)

\* the deviation taken whatever the number of values
DesvioSemGuarda(valores) == [raiz_de |-> Variance(valores)]

\* statistics.stdev(valores) if len(valores) > 1 else 0, as the square
\* root of an exact fraction
DesvioPadrao(valores) ==
    [raiz_de |-> IF Len(valores) > 1 THEN Variance(valores) ELSE Frac(0, 1)]

ResumoPedido(pedido) ==
    [id |-> Get(pedido, "id", None),
     valor |-> Get(pedido, "valor_total", 0),
     data |-> Get(pedido, "data_pedido", None)]

EmptyDict == [x \in {} |-> 0]

calcular_estatisticas_avancadas(pedidos) ==
    IF pedidos = <<>> THEN EmptyDict
    ELSE LET valores_pedidos == ValoresPedidos(pedidos)
         IN  [media_valor_pedido |->
                  Frac(SumSeq(valores_pedidos), Len(valores_pedidos)),
              mediana_valor_pedido |-> Median(valores_pedidos),
              desvio_padrao_valor |-> DesvioPadrao(valores_pedidos),
              maior_pedido |->
                  ResumoPedido(pedidos[IndexOfMax(valores_pedidos, 1, 1)]),
              menor_pedido |->
                  ResumoPedido(pedidos[IndexOfMin(valores_pedidos, 1, 1)])]

\* every order that can be dated, whenever it was placed
RECURSIVE PedidosSemJanela(_, _, _)
PedidosSemJanela(pedidos, agora, dias) ==
    IF pedidos = <<>> THEN <<>>
    ELSE (IF Comparavel(ConverterData(Head(pedidos)))
          THEN <<Head(pedidos)>> ELSE <<>>)
         \o PedidosSemJanela(Tail(pedidos), agora, dias)

RECURSIVE PedidosPeriodo(_, _, _)
PedidosPeriodo(pedidos, agora, dias) ==
    IF pedidos = <<>> THEN <<>>
    ELSE (IF NoPeriodoAtual(Head(pedidos), agora, dias)
          THEN <<Head(pedidos)>> ELSE <<>>)
         \o PedidosPeriodo(Tail(pedidos), agora, dias)

\* sum over i of (2 i - (n - 1)) * (n y_i - sum y), i being 0-based:
\* 2 n times sum((x_i - media_x) * (y_i - media_y))
RECURSIVE Numerador2n(_, _, _, _)
Numerador2n(valores, i, n, soma) ==
    IF i > n THEN 0
    ELSE (2 * (i - 1) - (n - 1)) * (n * valores[i] - soma)
         + Numerador2n(valores, i + 1, n, soma)

\* 4 times sum((x_i - media_x) ** 2)
RECURSIVE Denominador4(_, _)
Denominador4(i, n) ==
    IF i > n THEN 0
    ELSE (2 * (i - 1) - (n - 1)) * (2 * (i - 1) - (n - 1))
         + Denominador4(i + 1, n)

Estavel == [tendencia |-> "estavel", crescimento_diario |-> Frac(0, 1)]

analise_tendencia_vendas(pedidos, dias, agora) ==
    LET pedidos_periodo == PedidosPeriodo(pedidos, agora, dias)
        vendas_por_dia == agrupar_por_periodo(pedidos_periodo, "dia")
        valores == Values(vendas_por_dia)
        n == Len(valores)
        num == Numerador2n(valores, 1, n, SumSeq(valores))
        den == Denominador4(1, n)
        \* numerador / denominador = (num / 2n) / (den / 4)
        inclinacao == Frac(2 * num, n * den)
    IN  IF pedidos_periodo = <<>> THEN Estavel
        ELSE IF Len(vendas_por_dia) < 2 THEN Estavel
        ELSE IF n > 1 /\ den # 0
        THEN [tendencia |-> IF num > 0 THEN "crescente"
                            ELSE IF num < 0 THEN "decrescente"
                            ELSE "estavel",
              crescimento_diario |-> inclinacao,
              inclinacao |-> inclinacao]
        ELSE Estavel

\* a list of the default length, whatever the length asked for
RepeatPadrao(x, n) == [i \in 1..FuturosPadrao |-> x]

\* [x] * n: n copies, none for n <= 0
Repeat(x, n) == [i \in 1..n |-> x]

\* the mean of every daily bucket, however many there are
MediaDeTodos(valores) == Frac(SumSeq(valores), Len(valores))

\* media_movel: the mean of valores[-7:] when there are 7 values or more,
\* of all the values otherwise
MediaMovel(valores) ==
    IF Len(valores) >= 7
    THEN Frac(SumSeq(SubSeq(valores, Len(valores) - 6, Len(valores))), 7)
    ELSE Frac(SumSeq(valores), Len(valores))

\* the forecast taken without looking for an empty grouping first
PrevisaoSemGuarda(pedidos, dias_futuros) ==
    IF pedidos = <<>> THEN Repeat(Frac(0, 1), dias_futuros)
    ELSE Repeat(MediaMovel(Values(agrupar_por_periodo(pedidos, "dia"))),
                dias_futuros)

previsao_vendas_simples(pedidos, dias_futuros) ==
    IF pedidos = <<>> THEN Repeat(Frac(0, 1), dias_futuros)
    ELSE LET vendas_por_dia == agrupar_por_periodo(pedidos, "dia")
             valores == Values(vendas_por_dia)
         IN  IF vendas_por_dia = <<>> THEN Repeat(Frac(0, 1), dias_futuros)
             ELSE Repeat(MediaMovel(valores), dias_futuros)

\* the report with the ranking cut to its first entry
RelatorioSoOPrimeiro(pedidos, agora) ==
    LET metricas == calcular_metricas_principais(pedidos, agora)
    IN  IF metricas.erro # "" THEN metricas
        ELSE Ok([metricas_principais |-> metricas.valor,
                 estatisticas_avancadas |->
                     calcular_estatisticas_avancadas(pedidos),
                 tendencia_vendas |->
                     analise_tendencia_vendas(pedidos, DiasPadrao, agora),
                 previsao_vendas |->
                     previsao_vendas_simples(pedidos, FuturosPadrao),
                 horarios_pico |-> horarios_pico(pedidos),
                 dias_semana_performance |-> dias_semana_performance(pedidos),
                 itens_mais_vendidos |->
                     itens_mais_populares(pedidos, 1),
                 vendas_por_dia |-> agrupar_por_periodo(pedidos, "dia"),
                 vendas_por_semana |-> agrupar_por_periodo(pedidos, "semana"),
                 vendas_por_mes |-> agrupar_por_periodo(pedidos, "mes"),
                 data_geracao |-> agora])

gerar_relatorio_completo(pedidos, agora) ==
    LET metricas == calcular_metricas_principais(pedidos, agora)
    IN  IF metricas.erro # "" THEN metricas
        ELSE Ok([metricas_principais |-> metricas.valor,
                 estatisticas_avancadas |->
                     calcular_estatisticas_avancadas(pedidos),
                 tendencia_vendas |->
                     analise_tendencia_vendas(pedidos, DiasPadrao, agora),
                 previsao_vendas |->
                     previsao_vendas_simples(pedidos, FuturosPadrao),
                 horarios_pico |-> horarios_pico(pedidos),
                 dias_semana_performance |-> dias_semana_performance(pedidos),
                 itens_mais_vendidos |->
                     itens_mais_populares(pedidos, LimitePadrao),
                 vendas_por_dia |-> agrupar_por_periodo(pedidos, "dia"),
                 vendas_por_semana |-> agrupar_por_periodo(pedidos, "semana"),
                 vendas_por_mes |-> agrupar_por_periodo(pedidos, "mes"),
                 data_geracao |-> agora])

\* ------------------------------------------------------------- inputs
StrIso(ano, mes, dia, hora, z) ==
    [tipo |-> "str", forma |-> "iso", ano |-> ano, mes |-> mes, dia |-> dia,
     hora |-> hora, z |-> z]

StrLixo == [tipo |-> "str", forma |-> "lixo"]

StrVazia == [tipo |-> "str", forma |-> "vazia"]

DateTime(ano, mes, dia, hora, tz) ==
    [tipo |-> "datetime", ano |-> ano, mes |-> mes, dia |-> dia,
     hora |-> hora, tz |-> tz]

Epoch == [tipo |-> "int"]

\* the first reading of the wall clock: 2025-01-02T12:00, naive
AgoraInicial == Horas(DateTime(2025, 1, 2, 12, FALSE))

\* all batches of at most n pairwise distinct records of S (a record
\* carries its own id, so a batch holds it once)
Batches(S, n) ==
    {b \in UNION {[1..k -> S] : k \in 0..n} :
        \A i, j \in DOMAIN b : i # j => b[i] # b[j]}

\* A general batch universe: records with and without line items, with
\* every shape of timestamp.
UniversoGeral ==
    { [id |-> 1, data_pedido |-> StrIso(2025, 1, 1, 12, FALSE),
       valor_total |-> 300,
       itens |-> << [nome |-> "Pizza", valor |-> 100, quantidade |-> 3] >>],
      [id |-> 2, data_pedido |-> StrIso(2025, 1, 2, 10, TRUE),
       valor_total |-> 255],
      [id |-> 3, data_pedido |-> DateTime(2024, 12, 30, 10, FALSE),
       valor_total |-> 100,
       itens |-> << [nome |-> "Suco", preco_unitario |-> 50, quantidade |-> 2],
                    [valor |-> 40] >>],
      [id |-> 4, data_pedido |-> StrLixo, valor_total |-> 120],
      [id |-> 5, valor_total |-> 80, itens |-> << >>] }

\* Records without line items whose timestamps fall around the turn of
\* the year and in one- and two-digit weeks, and one whose text is not a
\* date.
UniversoPeriodo ==
    { [id |-> 11, data_pedido |-> StrIso(2024, 12, 30, 10, TRUE),
       valor_total |-> 100],
      [id |-> 12, data_pedido |-> DateTime(2024, 1, 1, 9, FALSE),
       valor_total |-> 40],
      [id |-> 13, data_pedido |-> StrIso(2024, 3, 1, 0, FALSE)],
      [id |-> 14, data_pedido |-> DateTime(2024, 12, 23, 18, FALSE),
       valor_total |-> 70],
      [id |-> 15, data_pedido |-> StrIso(2024, 13, 1, 10, FALSE),
       valor_total |-> 500] }

\* Records whose line items share names across records, tie on quantity
\* and leave out name, price or quantity.
UniversoItens ==
    { [id |-> 21, data_pedido |-> StrIso(2025, 1, 1, 12, FALSE),
       valor_total |-> 230,
       itens |-> << [nome |-> "A", preco_unitario |-> 100, quantidade |-> 1],
                    [nome |-> "B", valor |-> 50, quantidade |-> 2],
                    [nome |-> "C", preco_unitario |-> 30, valor |-> 99,
                     quantidade |-> 1] >>],
      [id |-> 22, data_pedido |-> StrIso(2025, 1, 2, 9, FALSE),
       valor_total |-> 70,
       itens |-> << [nome |-> "C", preco_unitario |-> 30, quantidade |-> 1],
                    [nome |-> "D", valor |-> 20, quantidade |-> 2] >>],
      [id |-> 23, data_pedido |-> StrVazia, valor_total |-> 20,
       itens |-> << [preco_unitario |-> 10],
                    [nome |-> "Item sem nome", valor |-> 5,
                     quantidade |-> 2] >>],
      [id |-> 24, data_pedido |-> Epoch, valor_total |-> 100],
      [id |-> 25, data_pedido |-> DateTime(2024, 12, 31, 13, FALSE),
       valor_total |-> 250,
       itens |-> << [nome |-> "B", valor |-> 50, quantidade |-> 1],
                    [nome |-> "A", preco_unitario |-> 100,
                     quantidade |-> 2] >>] }

\* A run of orders as a day-by-day export holds them, not in date order:
\* eight consecutive days up to the day of the first clock reading, two
\* orders in the same day and hour, one order older than the default
\* window, and one whose timestamp text is not a date.
SequenciaDias ==
    << [id |-> 41, data_pedido |-> StrIso(2023, 12, 30, 12, FALSE),
        valor_total |-> 500],
       [id |-> 40, data_pedido |-> StrIso(2024, 12, 29, 10, FALSE),
        valor_total |-> 60],
       [id |-> 31, data_pedido |-> StrIso(2024, 12, 29, 10, FALSE),
        valor_total |-> 100],
       [id |-> 32, data_pedido |-> DateTime(2024, 12, 27, 20, FALSE),
        valor_total |-> 300],
       [id |-> 33, data_pedido |-> StrIso(2025, 1, 1, 13, FALSE),
        valor_total |-> 50],
       [id |-> 35, data_pedido |-> StrLixo, valor_total |-> 999],
       [id |-> 34, data_pedido |-> StrIso(2024, 12, 28, 8, FALSE),
        valor_total |-> 210],
       [id |-> 36, data_pedido |-> DateTime(2024, 12, 31, 15, FALSE),
        valor_total |-> 120],
       [id |-> 37, data_pedido |-> StrIso(2024, 12, 30, 10, FALSE),
        valor_total |-> 80],
       [id |-> 38, data_pedido |-> StrIso(2024, 12, 26, 23, FALSE),
        valor_total |-> 400],
       [id |-> 39, data_pedido |-> StrIso(2025, 1, 2, 9, FALSE),
        valor_total |-> 75] >>

\* the runs of at most n consecutive records of a sequence
Segmentos(base, n) ==
    {<<>>} \cup
    UNION {{SubSeq(base, i, i + k - 1) : i \in 1..(Len(base) - k + 1)} :
              k \in 1..n}

\* Records with fields missing or present with the value None, a
\* timezone-qualified timestamp, a text that is not a date and line
\* items that lack fields.
UniversoNulos ==
    { [id |-> 51, data_pedido |-> StrIso(2025, 1, 1, 12, FALSE),
       valor_total |-> 10, itens |-> << None >>],
      [id |-> 52, data_pedido |-> None, valor_total |-> 40],
      [id |-> 53, data_pedido |-> StrIso(2025, 1, 2, 8, TRUE),
       valor_total |-> 70, itens |-> << [quantidade |-> 2] >>],
      [id |-> 54],
      [id |-> 55, data_pedido |-> StrLixo, valor_total |-> 25,
       itens |-> << >>] }

TiposPeriodo == {"dia", "semana", "mes", "ano"}

\* ------------------------------------------------ client and dashboard
\* the API client between calls
ClienteOcioso == [pc |-> "ocioso", metodo |-> "", log |-> << >>,
                  origem |-> "", ret |-> Ok(None)]

\* no dashboard window: SaboreAnalytics used on its own
SemPainel == [refresh_btn |-> FALSE, worker |-> "nenhum",
              sinal |-> "nenhum", dados |-> None, analytics |-> None,
              erro |-> "", cargas |-> 0, iniciados |-> 0]

\* -------------------------------------------------------------- state
VARIABLES
    pedidos,    \* SaboreAnalytics.pedidos: the batch under analysis
    agora,      \* the wall clock, in hours
    op,         \* the operation called last
    args,       \* its arguments and, when it reads the clock, the reading
    ret,        \* what it returned: Ok(value) or Raise(exception)
    cliente,    \* SaboreAPIClient: the call in progress and its requests
    painel      \* ModernSaboreApp: refresh button, worker, queued signal,
                \* the orders received and the ones under analysis

vars == <<pedidos, agora, op, args, ret, cliente, painel>>

SemArgs == EmptyDict

Fresh == /\ op = "__init__"
         /\ args = SemArgs
         /\ ret = Ok(None)
         /\ cliente = ClienteOcioso
         /\ painel = SemPainel

InitCom(universo) ==
    /\ pedidos \in Batches(universo, MaxPedidos)
    /\ agora = AgoraInicial
    /\ Fresh

Init == InitCom(UniversoGeral)

InitPeriodo == InitCom(UniversoPeriodo)

InitItens == InitCom(UniversoItens)

InitNulos == InitCom(UniversoNulos)

InitDias ==
    /\ pedidos \in Segmentos(SequenciaDias, MaxLote)
    /\ agora = AgoraInicial
    /\ Fresh

\* the wall clock advances
Relogio ==
    /\ agora < AgoraInicial + MaxRelogio
    /\ agora' = agora + 1
    /\ UNCHANGED <<pedidos, op, args, ret, cliente, painel>>

CalcularVendasTotais ==
    /\ op' = "calcular_vendas_totais"
    /\ args' = SemArgs
    /\ ret' = IF IteraNulo(pedidos) THEN Raise("AttributeError")
              ELSE Ok(calcular_vendas_totais(pedidos))
    /\ UNCHANGED <<pedidos, agora, cliente, painel>>

AgruparPorPeriodo ==
    \E tipo_periodo \in TiposPeriodo :
        /\ op' = "agrupar_por_periodo"
        /\ args' = [tipo_periodo |-> tipo_periodo]
        /\ ret' = Ok(agrupar_por_periodo(pedidos, tipo_periodo))
        /\ UNCHANGED <<pedidos, agora, cliente, painel>>

\* the ranking call cutting the batch itself down to the limit
ItensMaisPopularesNoLugar ==
    \E limite \in 0..MaxLimite \cup {LimitePadrao} :
        /\ op' = "itens_mais_populares"
        /\ args' = [limite |-> limite]
        /\ ret' = IF IteraNulo(pedidos) THEN Raise("AttributeError")
                  ELSE Ok(itens_mais_populares(pedidos, limite))
        /\ pedidos' = SliceAte(pedidos, limite)
        /\ UNCHANGED <<agora, cliente, painel>>

ItensMaisPopulares ==
    \E limite \in 0..MaxLimite \cup {LimitePadrao} :
        /\ op' = "itens_mais_populares"
        /\ args' = [limite |-> limite]
        /\ ret' = IF IteraNulo(pedidos) THEN Raise("AttributeError")
                  ELSE Ok(itens_mais_populares(pedidos, limite))
        /\ UNCHANGED <<pedidos, agora, cliente, painel>>

CalcularTicketMedio ==
    /\ op' = "calcular_ticket_medio"
    /\ args' = SemArgs
    /\ ret' = IF IteraNulo(pedidos) THEN Raise("AttributeError")
              ELSE Ok(calcular_ticket_medio(pedidos))
    /\ UNCHANGED <<pedidos, agora, cliente, painel>>

HorariosPico ==
    /\ op' = "horarios_pico"
    /\ args' = SemArgs
    /\ ret' = Ok(horarios_pico(pedidos))
    /\ UNCHANGED <<pedidos, agora, cliente, painel>>

DiasSemanaPerformance ==
    /\ op' = "dias_semana_performance"
    /\ args' = SemArgs
    /\ ret' = Ok(dias_semana_performance(pedidos))
    /\ UNCHANGED <<pedidos, agora, cliente, painel>>

AnaliseSazonalidade ==
    \E meses \in {MesesPadrao, MesesPadrao \div 2} :
        /\ op' = "analise_sazonalidade"
        /\ args' = [meses |-> meses]
        /\ ret' = Ok(analise_sazonalidade(pedidos, meses))
        /\ UNCHANGED <<pedidos, agora, cliente, painel>>

CalcularCrescimentoVendas ==
    \E dias \in 1..MaxDias \cup {DiasPadrao} :
        /\ op' = "calcular_crescimento_vendas"
        /\ args' = [dias |-> dias, agora |-> agora]
        /\ ret' = calcular_crescimento_vendas(pedidos, dias, agora)
        /\ UNCHANGED <<pedidos, agora, cliente, painel>>

CalcularMetricasPrincipais ==
    /\ op' = "calcular_metricas_principais"
    /\ args' = [agora |-> agora]
    /\ ret' = calcular_metricas_principais(pedidos, agora)
    /\ UNCHANGED <<pedidos, agora, cliente, painel>>

CalcularEstatisticasAvancadas ==
    /\ op' = "calcular_estatisticas_avancadas"
    /\ args' = SemArgs
    /\ ret' = Ok(calcular_estatisticas_avancadas(pedidos))
    /\ UNCHANGED <<pedidos, agora, cliente, painel>>

AnaliseTendenciaVendas ==
    \E dias \in 1..MaxDias \cup {DiasPadrao} :
        /\ op' = "analise_tendencia_vendas"
        /\ args' = [dias |-> dias, agora |-> agora]
        /\ ret' = Ok(analise_tendencia_vendas(pedidos, dias, agora))
        /\ UNCHANGED <<pedidos, agora, cliente, painel>>

PrevisaoVendasSimples ==
    \E dias_futuros \in 0..MaxFuturos \cup {FuturosPadrao} :
        /\ op' = "previsao_vendas_simples"
        /\ args' = [dias_futuros |-> dias_futuros]
        /\ ret' = Ok(previsao_vendas_simples(pedidos, dias_futuros))
        /\ UNCHANGED <<pedidos, agora, cliente, painel>>

GerarRelatorioCompleto ==
    /\ op' = "gerar_relatorio_completo"
    /\ args' = [agora |-> agora]
    /\ ret' = gerar_relatorio_completo(pedidos, agora)
    /\ UNCHANGED <<pedidos, agora, cliente, painel>>

Next ==
    \/ Relogio
    \/ CalcularVendasTotais
    \/ AgruparPorPeriodo
    \/ ItensMaisPopulares
    \/ CalcularTicketMedio
    \/ HorariosPico
    \/ DiasSemanaPerformance
    \/ AnaliseSazonalidade
    \/ CalcularCrescimentoVendas
    \/ CalcularMetricasPrincipais
    \/ CalcularEstatisticasAvancadas
    \/ AnaliseTendenciaVendas
    \/ PrevisaoVendasSimples
    \/ GerarRelatorioCompleto

Spec == Init /\ [][Next]_vars

SpecPeriodo == InitPeriodo /\ [][Next]_vars

SpecItens == InitItens /\ [][Next]_vars

SpecDias == InitDias /\ [][Next]_vars

SpecNulos == InitNulos /\ [][Next]_vars

\* ------------------------------------------------------ SaboreAPIClient
MaxResposta == 1
MaxCargas == 2

\* a JSON array and a JSON object, as response.json() returns them
Lista(valor) == [tipo |-> "list", valor |-> valor]

Objeto(chaves) == [tipo |-> "dict", chaves |-> chaves]

\* the orders a backend may send: a complete one, one with a null line
\* item and one with nothing but its id
UniversoAPI ==
    { CHOOSE p \in UniversoGeral : p.id = 1,
      CHOOSE p \in UniversoNulos : p.id = 51,
      CHOOSE p \in UniversoNulos : p.id = 54 }

\* bodies of a 200 application/json response
Corpos ==
    {Lista(b) : b \in Batches(UniversoAPI, MaxResposta)}
        \cup {Objeto({}), Objeto({"pedidos"})}

\* what session.request raises, each turned into APIError
Falhas == {"ConnectionError", "Timeout", "HTTPError", "Exception"}

\* the outcomes of one HTTP exchange: a failure of the request, a reply
\* that is not JSON by content type, a JSON reply whose body does not
\* parse, one whose parsing exhausts the stack, and a parsed body
Respostas ==
    {[tipo |-> t, corpo |-> None] :
        t \in Falhas \cup {"nao_json", "corpo_invalido", "json_profundo"}}
        \cup {[tipo |-> "json", corpo |-> c] : c \in Corpos}

SucessoPadrao == Objeto({"status", "message"})

\* an exception leaving a call of the client
Levanta(e) == [erro |-> e, valor |-> None]

make_request(r) ==
    IF r.tipo \in Falhas THEN Levanta("APIError") ELSE Ok(r)

http_get(r) ==
    LET response == make_request(r)
    IN  IF response.erro # "" THEN response
        ELSE IF r.tipo = "nao_json" THEN Levanta("APIError")
        ELSE IF r.tipo = "corpo_invalido" THEN Ok(SucessoPadrao)
        ELSE IF r.tipo = "json_profundo" THEN Levanta("RecursionError")
        ELSE Ok(r.corpo)

\* the endpoints a method tries, in order
Endpoints(metodo) ==
    IF metodo = "get_pedidos" THEN << "/api/pedidos", "/pedidos" >>
    ELSE << "/api/restaurantes/1/itens-vendidos",
            "/restaurantes/1/itens-vendidos" >>

\* _get_mock_pedidos draws its orders at random
LotesMock ==
    { << CHOOSE p \in UniversoGeral : p.id = 1 >>,
      << [id |-> 1, data_pedido |-> StrIso(2025, 1, 2, 9, FALSE),
          valor_total |-> 90,
          itens |-> << [nome |-> "Prato 1", valor |-> 30,
                        quantidade |-> 2, categoria |-> "Lanches"] >>] >> }

Mock(metodo) ==
    IF metodo = "get_pedidos" THEN {Lista(l) : l \in LotesMock}
    ELSE {Lista(<< [nome |-> "X-Burger"] >>)}

Chamada(metodo) == [pc |-> "primeiro", metodo |-> metodo, log |-> << >>,
                    origem |-> "", ret |-> Ok(None)]

\* the call letting the APIError of a request out instead of going on
PedirSemFallback(n, r, depois) ==
    LET res == http_get(r)
        endpoint == Endpoints(cliente.metodo)[n]
        log == Append(cliente.log, [endpoint |-> endpoint, resposta |-> r])
    IN  cliente' = [cliente EXCEPT !.pc = "fim", !.log = log,
                                   !.origem = endpoint, !.ret = res]

\* the request of position n of a call, answered by r; a call that
\* catches APIError goes on to `depois`, any other outcome ends it
Pedir(n, r, depois) ==
    LET res == http_get(r)
        endpoint == Endpoints(cliente.metodo)[n]
        log == Append(cliente.log, [endpoint |-> endpoint, resposta |-> r])
    IN  cliente' = IF res.erro = "APIError"
                   THEN [cliente EXCEPT !.pc = depois, !.log = log]
                   ELSE [cliente EXCEPT !.pc = "fim", !.log = log,
                                        !.origem = endpoint, !.ret = res]

\* try: return self._get(<first endpoint>)
PedirPrimeiro ==
    /\ cliente.pc = "primeiro"
    /\ \E r \in Respostas : Pedir(1, r, "segundo")
    /\ UNCHANGED <<pedidos, agora, op, args, ret, painel>>

\* except APIError: try: return self._get(<second endpoint>)
PedirSegundo ==
    /\ cliente.pc = "segundo"
    /\ \E r \in Respostas : Pedir(2, r, "mock")
    /\ UNCHANGED <<pedidos, agora, op, args, ret, painel>>

\* except APIError: return self._get_mock_...()
DevolverMock ==
    /\ cliente.pc = "mock"
    /\ \E m \in Mock(cliente.metodo) :
           cliente' = [cliente EXCEPT !.pc = "fim", !.origem = "mock",
                                      !.ret = Ok(m)]
    /\ UNCHANGED <<pedidos, agora, op, args, ret, painel>>

\* ----------------------------------------------- DataWorker, dashboard
\* ModernSaboreApp.__init__ has run load_initial_data: the button is
\* disabled and the first worker started
PainelInicial == [refresh_btn |-> FALSE, worker |-> "iniciado",
                  sinal |-> "nenhum", dados |-> None, analytics |-> None,
                  erro |-> "", cargas |-> 1, iniciados |-> 1]

InitPainel ==
    /\ pedidos = << >>
    /\ agora = AgoraInicial
    /\ op = "__init__"
    /\ args = SemArgs
    /\ ret = Ok(None)
    /\ cliente = ClienteOcioso
    /\ painel = PainelInicial

\* load_initial_data: disable the button, create and start a worker
load_initial_data(p) ==
    [p EXCEPT !.refresh_btn = FALSE, !.worker = "iniciado",
              !.sinal = "nenhum", !.cargas = p.cargas + 1,
              !.iniciados = p.iniciados + 1]

\* a click on the refresh button; a disabled button delivers none
RefreshData ==
    /\ painel.refresh_btn
    /\ painel.cargas < MaxCargas
    /\ painel' = load_initial_data(painel)
    /\ UNCHANGED <<pedidos, agora, op, args, ret, cliente>>

\* DataWorker.run enters get_pedidos
DataWorkerRun ==
    /\ painel.worker = "iniciado"
    /\ painel' = [painel EXCEPT !.worker = "get_pedidos"]
    /\ cliente' = Chamada("get_pedidos")
    /\ UNCHANGED <<pedidos, agora, op, args, ret>>

\* get_pedidos is over: an exception goes to the except clause of run,
\* which emits error_occurred; a result is kept as vendas_detalhadas
\* and run enters get_itens_mais_vendidos
DataWorkerItens ==
    /\ painel.worker = "get_pedidos"
    /\ cliente.pc = "fim"
    /\ IF cliente.ret.erro # ""
       THEN /\ painel' = [painel EXCEPT !.worker = "terminado",
                                        !.sinal = "error_occurred"]
            /\ UNCHANGED cliente
       ELSE /\ painel' = [painel EXCEPT !.worker = "get_itens",
                                        !.dados = cliente.ret.valor]
            /\ cliente' = Chamada("get_itens_mais_vendidos")
    /\ UNCHANGED <<pedidos, agora, op, args, ret>>

\* get_itens_mais_vendidos is over: run sleeps and emits data_loaded,
\* or emits error_occurred from its except clause
DataWorkerEmit ==
    /\ painel.worker = "get_itens"
    /\ cliente.pc = "fim"
    /\ painel' = [painel EXCEPT
                      !.worker = "terminado",
                      !.sinal = IF cliente.ret.erro # ""
                                THEN "error_occurred" ELSE "data_loaded"]
    /\ cliente' = ClienteOcioso
    /\ UNCHANGED <<pedidos, agora, op, args, ret>>

\* the exception, if any, that leaves update_dashboard_metrics on
\* SaboreAnalytics(vendas): iterating a JSON object yields its keys,
\* which are str and have no .get
update_dashboard_metrics(vendas, relogio) ==
    IF vendas.tipo = "dict"
    THEN IF vendas.chaves = {} THEN "" ELSE "AttributeError"
    ELSE calcular_metricas_principais(vendas.valor, relogio).erro

\* the slot of data_loaded, run by the event loop of the main thread.
\* An exception of update_dashboard_metrics leaves the slot before
\* refresh_btn.setEnabled(True).
OnDataLoaded ==
    /\ painel.sinal = "data_loaded"
    /\ LET vendas_data == painel.dados
           erro == update_dashboard_metrics(vendas_data, agora)
       IN  painel' = [painel EXCEPT
                          !.sinal = "nenhum",
                          !.analytics = vendas_data,
                          !.erro = erro,
                          !.refresh_btn = (erro = "")]
    /\ UNCHANGED <<pedidos, agora, op, args, ret, cliente>>

\* the slot of error_occurred
OnError ==
    /\ painel.sinal = "error_occurred"
    /\ painel' = [painel EXCEPT !.sinal = "nenhum", !.erro = "",
                                !.refresh_btn = TRUE]
    /\ UNCHANGED <<pedidos, agora, op, args, ret, cliente>>

NextPainel ==
    \/ RefreshData
    \/ DataWorkerRun
    \/ PedirPrimeiro
    \/ PedirSegundo
    \/ DevolverMock
    \/ DataWorkerItens
    \/ DataWorkerEmit
    \/ OnDataLoaded
    \/ OnError

SpecPainel == InitPainel /\ [][NextPainel]_vars

\* the worker thread is scheduled and the event loop delivers every
\* queued signal; nothing obliges the user to click
SpecPainelJusto ==
    /\ InitPainel
    /\ [][NextPainel]_vars
    /\ WF_vars(DataWorkerRun)
    /\ WF_vars(PedirPrimeiro)
    /\ WF_vars(PedirSegundo)
    /\ WF_vars(DevolverMock)
    /\ WF_vars(DataWorkerItens)
    /\ WF_vars(DataWorkerEmit)
    /\ WF_vars(OnDataLoaded)
    /\ WF_vars(OnError)

\* ------------------------------------------------------------- claims
\* What the claims call a timestamp that parses: a native time value, or
\* an ISO-8601 text (with or without the Z suffix) naming a real date and
\* hour.
TimestampParses(pedido) ==
    /\ "data_pedido" \in DOMAIN pedido
    /\ \/ pedido.data_pedido.tipo = "datetime"
       \/ /\ pedido.data_pedido.tipo = "str"
          /\ pedido.data_pedido.forma = "iso"
          /\ pedido.data_pedido.mes \in 1..12
          /\ pedido.data_pedido.dia
                 \in 1..DaysInMonth(pedido.data_pedido.ano,
                                    pedido.data_pedido.mes)
          /\ pedido.data_pedido.hora \in 0..23

\* C1: for a non-empty batch calcular_metricas_principais reports as
\* total_pedidos the number of orders of the batch, whether or not
\* their timestamps parse, and a ticket_medio whose product with
\* total_pedidos is vendas_totais.
C1_TicketMedio ==
    (op = "calcular_metricas_principais" /\ pedidos # <<>>) =>
        /\ ret.erro = ""
        /\ ret.valor.total_pedidos = Len(pedidos)
        /\ ret.valor.ticket_medio.den # 0
        /\ ret.valor.ticket_medio.num * ret.valor.total_pedidos
               = ret.valor.vendas_totais * ret.valor.ticket_medio.den

C1_Witness ==
    /\ op = "calcular_metricas_principais"
    /\ Len(pedidos) = 3
    /\ \E i \in DOMAIN pedidos : ~TimestampParses(pedidos[i])
    /\ ret.valor.vendas_totais % 3 # 0

\* C2: on an empty batch every operation returns its zero or empty value
\* and none raises: zero metrics, an empty statistics dict, a flat trend
\* with slope 0, as many zeros as forecast days were asked for, empty
\* maps and an empty ranking.
C2_EmptyBatch ==
    (pedidos = <<>> /\ op # "__init__") =>
        /\ ret.erro = ""
        /\ op = "calcular_metricas_principais" =>
               ret.valor = [vendas_totais |-> 0, ticket_medio |-> Frac(0, 1),
                            total_pedidos |-> 0,
                            crescimento_percentual |-> 0]
        /\ op = "calcular_estatisticas_avancadas" => DOMAIN ret.valor = {}
        /\ op = "analise_tendencia_vendas" =>
               ret.valor = [tendencia |-> "estavel",
                            crescimento_diario |-> Frac(0, 1)]
        /\ op = "previsao_vendas_simples" =>
               /\ Len(ret.valor) = args.dias_futuros
               /\ \A i \in DOMAIN ret.valor : ret.valor[i] = Frac(0, 1)
        /\ op \in {"agrupar_por_periodo", "horarios_pico",
                   "dias_semana_performance", "analise_sazonalidade",
                   "itens_mais_populares"} => ret.valor = <<>>
        /\ op = "calcular_vendas_totais" => ret.valor = 0
        /\ op = "calcular_ticket_medio" => ret.valor = Frac(0, 1)
        /\ op = "calcular_crescimento_vendas" => ret.valor = 0

C2_Witness ==
    /\ pedidos = <<>>
    /\ op = "previsao_vendas_simples"
    /\ args.dias_futuros = MaxFuturos
    /\ Len(ret.valor) = MaxFuturos

\* The unit price of a line item: its preco_unitario, or else its valor.
PrecoUnitario(item) == Get(item, "preco_unitario", Get(item, "valor", 0))

RECURSIVE SomaLinhas(_)
SomaLinhas(itens) ==
    IF itens = <<>> THEN 0
    ELSE PrecoUnitario(Head(itens)) * Get(Head(itens), "quantidade", 1)
         + SomaLinhas(Tail(itens))

TemLinhas(pedido) == "itens" \in DOMAIN pedido /\ pedido.itens # <<>>

RECURSIVE VendasDeclaradas(_)
VendasDeclaradas(lote) ==
    IF lote = <<>> THEN 0
    ELSE (IF TemLinhas(Head(lote)) THEN SomaLinhas(Head(lote).itens)
          ELSE Get(Head(lote), "valor_total", 0))
         + VendasDeclaradas(Tail(lote))

\* C3: calcular_vendas_totais returns the sum over the orders of the
\* line items' unit price times quantity for an order that has line
\* items, and of the order's total value for an order that has none.
C3_VendasTotais ==
    op = "calcular_vendas_totais" =>
        ret.valor = VendasDeclaradas(pedidos)

\* the sum of total_value over the orders of the batch that satisfy P
SomaValorTotal(lote, P(_)) ==
    LET soma[i \in 0..Len(lote)] ==
            IF i = 0 THEN 0
            ELSE soma[i - 1] + (IF P(lote[i])
                                THEN Get(lote[i], "valor_total", 0) ELSE 0)
    IN  soma[Len(lote)]

\* C4: whatever the period kind, each bucket of agrupar_por_periodo holds
\* the total_value of the orders with a parseable timestamp that carry
\* its key, each such order's key is one bucket, and so the buckets sum
\* to the total_value of exactly the orders whose timestamp parses.
C4_BucketsSum ==
    op = "agrupar_por_periodo" =>
        LET chave(p) == ChavePeriodo(p.data_pedido, args.tipo_periodo)
        IN  /\ SumSeq(Values(ret.valor))
                   = SomaValorTotal(pedidos, TimestampParses)
            /\ \A k \in DOMAIN ret.valor :
                   LET NoBucket(p) == /\ TimestampParses(p)
                                      /\ chave(p) = ret.valor[k][1]
                   IN  /\ ret.valor[k][2] = SomaValorTotal(pedidos, NoBucket)
                       /\ \E i \in DOMAIN pedidos : NoBucket(pedidos[i])
            /\ \A i \in DOMAIN pedidos :
                   TimestampParses(pedidos[i]) =>
                       Cardinality({k \in DOMAIN ret.valor :
                                       ret.valor[k][1] = chave(pedidos[i])}) = 1

C4_Witness ==
    /\ op = "agrupar_por_periodo"
    /\ Len(pedidos) = 3
    /\ Len(ret.valor) = 1
    /\ Cardinality({i \in DOMAIN pedidos :
                       /\ TimestampParses(pedidos[i])
                       /\ Get(pedidos[i], "valor_total", 0) > 0}) = 2
    /\ \E i \in DOMAIN pedidos :
           /\ ~TimestampParses(pedidos[i])
           /\ Get(pedidos[i], "valor_total", 0) > 0

\* C5: the keys of the mapping agrupar_por_periodo returns are listed in
\* strictly ascending string order, whatever the order of the records.
C5_KeysAscending ==
    op = "agrupar_por_periodo" =>
        \A i \in 1..(Len(ret.valor) - 1) :
            StrLt(ret.valor[i][1], ret.valor[i + 1][1])

\* the records arrived in another order than the keys' order, and two
\* of the keys differ first where a two-digit week meets a one-digit one
C5_Witness ==
    /\ op = "agrupar_por_periodo"
    /\ args.tipo_periodo = "semana"
    /\ Len(ret.valor) = 3
    /\ AgruparLoop(pedidos, "semana", <<>>) # ret.valor
    /\ \E i \in 1..(Len(ret.valor) - 1) :
           Len(ret.valor[i][1]) > Len(ret.valor[i + 1][1])

IsoSemana(p) == <<IsoCalendar(p.data_pedido)[1], IsoCalendar(p.data_pedido)[2]>>

\* C6: with period kind 'semana' the buckets are the ISO weeks: there are
\* as many buckets as ISO weeks (ISO year and ISO week number) among the
\* orders with a parseable timestamp, and each such order's ISO week is
\* a bucket holding the total_value of the orders of that ISO week.
C6_IsoWeekBuckets ==
    (op = "agrupar_por_periodo" /\ args.tipo_periodo = "semana") =>
        LET comData == {i \in DOMAIN pedidos : TimestampParses(pedidos[i])}
        IN  /\ Len(ret.valor)
                   = Cardinality({IsoSemana(pedidos[i]) : i \in comData})
            /\ \A i \in comData :
                   LET MesmaSemana(p) ==
                           /\ TimestampParses(p)
                           /\ IsoSemana(p) = IsoSemana(pedidos[i])
                   IN  \E k \in DOMAIN ret.valor :
                           ret.valor[k][2]
                               = SomaValorTotal(pedidos, MesmaSemana)

\* the line items of a batch, orders in batch order, items in order
RECURSIVE LinhasDoLote(_)
LinhasDoLote(lote) ==
    IF lote = <<>> THEN <<>>
    ELSE (IF "itens" \in DOMAIN Head(lote) THEN Head(lote).itens ELSE <<>>)
         \o LinhasDoLote(Tail(lote))

NomeDaLinha(item) == Get(item, "nome", "Item sem nome")

NomesDoLote(lote) ==
    {NomeDaLinha(LinhasDoLote(lote)[i]) : i \in DOMAIN LinhasDoLote(lote)}

\* where scanning the batch first meets the name
PrimeiraLinha(lote, nome) ==
    CHOOSE i \in DOMAIN LinhasDoLote(lote) :
        /\ NomeDaLinha(LinhasDoLote(lote)[i]) = nome
        /\ \A j \in 1..(i - 1) : NomeDaLinha(LinhasDoLote(lote)[j]) # nome

\* C7: the ranking of itens_mais_populares is in non-increasing order of
\* quantidade_total, and entries with equal quantidade_total appear in
\* the order in which scanning the batch first met their names.
C7_RankingOrder ==
    op = "itens_mais_populares" =>
        \A i, j \in DOMAIN ret.valor :
            i < j =>
                /\ ret.valor[i].quantidade_total >= ret.valor[j].quantidade_total
                /\ ret.valor[i].quantidade_total = ret.valor[j].quantidade_total
                       => PrimeiraLinha(pedidos, ret.valor[i].nome)
                              < PrimeiraLinha(pedidos, ret.valor[j].nome)

\* a tie between two names, below a name that the scan met after them
C7_Witness ==
    /\ op = "itens_mais_populares"
    /\ \E i, j, k \in DOMAIN ret.valor :
           /\ k < i /\ i < j
           /\ ret.valor[i].quantidade_total = ret.valor[j].quantidade_total
           /\ ret.valor[k].quantidade_total > ret.valor[i].quantidade_total
           /\ PrimeiraLinha(pedidos, ret.valor[k].nome)
                  > PrimeiraLinha(pedidos, ret.valor[j].nome)

SomaDasLinhas(linhas, nome, f(_)) ==
    LET soma[i \in 0..Len(linhas)] ==
            IF i = 0 THEN 0
            ELSE soma[i - 1] + (IF NomeDaLinha(linhas[i]) = nome
                                THEN f(linhas[i]) ELSE 0)
    IN  soma[Len(linhas)]

QuantidadeDaLinha(item) == Get(item, "quantidade", 1)

ValorDaLinha(item) == PrecoUnitario(item) * Get(item, "quantidade", 1)

\* C8: itens_mais_populares(orders, limite) returns min(limite, number
\* of distinct item names) entries with pairwise distinct names, each
\* with the sums of quantity and of unit price times quantity over all
\* line items of its name in the batch, and they are the first entries
\* of the full ranking.
C8_RankingContent ==
    op = "itens_mais_populares" =>
        LET linhas == LinhasDoLote(pedidos)
            nomes == NomesDoLote(pedidos)
            n == Cardinality(nomes)
        IN  /\ Len(ret.valor) = IF args.limite < n THEN args.limite ELSE n
            /\ \A i, j \in DOMAIN ret.valor :
                   i # j => ret.valor[i].nome # ret.valor[j].nome
            /\ \A i \in DOMAIN ret.valor :
                   /\ ret.valor[i].nome \in nomes
                   /\ ret.valor[i].quantidade_total
                          = SomaDasLinhas(linhas, ret.valor[i].nome,
                                          QuantidadeDaLinha)
                   /\ ret.valor[i].valor_total
                          = SomaDasLinhas(linhas, ret.valor[i].nome,
                                          ValorDaLinha)
            /\ ret.valor = SubSeq(itens_mais_populares(pedidos, n), 1,
                                  Len(ret.valor))

\* the limit cuts the ranking, and an entry returned sums several line
\* items, one of them of more than one unit
C8_Witness ==
    /\ op = "itens_mais_populares"
    /\ args.limite >= 2
    /\ args.limite < Cardinality(NomesDoLote(pedidos))
    /\ \E i \in DOMAIN ret.valor :
           /\ Cardinality({l \in DOMAIN LinhasDoLote(pedidos) :
                  NomeDaLinha(LinhasDoLote(pedidos)[l]) = ret.valor[i].nome}) >= 2
           /\ ret.valor[i].valor_total > 0
           /\ ret.valor[i].quantidade_total >= 3
    /\ \E l \in DOMAIN LinhasDoLote(pedidos) :
           "nome" \notin DOMAIN LinhasDoLote(pedidos)[l]

Instante(p) == Horas(p.data_pedido)

\* C10: calcular_crescimento_vendas(orders, dias) counts in the current
\* window exactly the orders whose timestamp parses (native value or
\* ISO-8601 text, with or without Z) and is >= now - dias, and in the
\* previous window exactly those with now - 2*dias <= timestamp <
\* now - dias.
C10_Windows ==
    op = "calcular_crescimento_vendas" =>
        LET NaAtual(p) ==
                /\ TimestampParses(p)
                /\ Instante(p) >= args.agora - 24 * args.dias
            NaAnterior(p) ==
                /\ TimestampParses(p)
                /\ Instante(p) >= args.agora - 2 * 24 * args.dias
                /\ Instante(p) < args.agora - 24 * args.dias
        IN  /\ VendasAtual(pedidos, args.agora, args.dias)
                   = SelectSeq(pedidos, NaAtual)
            /\ VendasAnterior(pedidos, args.agora, args.dias)
                   = SelectSeq(pedidos, NaAnterior)
            /\ ret = Crescimento(
                         calcular_vendas_totais(SelectSeq(pedidos, NaAtual)),
                         calcular_vendas_totais(SelectSeq(pedidos, NaAnterior)))

\* The calendar day a parseable timestamp names, as <<year, month, day>>.
DiaDe(p) == <<p.data_pedido.ano, p.data_pedido.mes, p.data_pedido.dia>>

DiaAntes(d, e) ==
    \/ d[1] < e[1]
    \/ (d[1] = e[1] /\ d[2] < e[2])
    \/ (d[1] = e[1] /\ d[2] = e[2] /\ d[3] < e[3])

\* the calendar days on which the orders of the batch that satisfy P fall
DiasDoLote(lote, P(_)) ==
    {DiaDe(lote[i]) : i \in {j \in 1..Len(lote) : P(lote[j])}}

\* the sum of total_value over the orders that satisfy P and fall on a
\* day of the set D
SomaDosDias(lote, P(_), D) ==
    LET soma[i \in 0..Len(lote)] ==
            IF i = 0 THEN 0
            ELSE soma[i - 1]
                 + (IF P(lote[i]) /\ DiaDe(lote[i]) \in D
                    THEN Get(lote[i], "valor_total", 0) ELSE 0)
    IN  soma[Len(lote)]

\* the days of D that have fewer than n days of D after them
UltimosDias(D, n) ==
    {d \in D : Cardinality({e \in D : DiaAntes(d, e)}) < n}

MesmaFracao(a, b) == a.den # 0 /\ b.den # 0 /\ a.num * b.den = b.num * a.den

\* C11: on a batch with at least one daily bucket previsao_vendas_simples(h)
\* returns exactly h values, all equal to the mean of the last 7 daily
\* buckets in day order when there are 7 buckets or more, and to the mean
\* of all the buckets otherwise.
C11_MovingAverage ==
    LET D == DiasDoLote(pedidos, TimestampParses)
        U == IF Cardinality(D) >= 7 THEN UltimosDias(D, 7) ELSE D
    IN  (op = "previsao_vendas_simples" /\ D # {}) =>
            /\ Len(ret.valor) = args.dias_futuros
            /\ \A i \in 1..Len(ret.valor) :
                   MesmaFracao(ret.valor[i],
                               [num |-> SomaDosDias(pedidos, TimestampParses, U),
                                den |-> Cardinality(U)])

\* a forecast of several values over more than 7 daily buckets, whose
\* last 7 buckets do not have the mean of all of them
C11_Witness ==
    LET D == DiasDoLote(pedidos, TimestampParses)
    IN  /\ op = "previsao_vendas_simples"
        /\ args.dias_futuros = MaxFuturos
        /\ Len(ret.valor) = MaxFuturos
        /\ Cardinality(D) > 7
        /\ ~MesmaFracao(ret.valor[1],
                        [num |-> SomaDosDias(pedidos, TimestampParses, D),
                         den |-> Cardinality(D)])

\* C12: previsao_vendas_simples(h) returns exactly h zeros whenever no
\* order of the batch has a parseable timestamp, so that grouping by day
\* yields no bucket: for the empty batch and for a non-empty batch alike.
C12_NoBucketZeros ==
    (op = "previsao_vendas_simples"
        /\ \A i \in 1..Len(pedidos) : ~TimestampParses(pedidos[i])) =>
            /\ ret.erro = ""
            /\ Len(ret.valor) = args.dias_futuros
            /\ \A i \in 1..Len(ret.valor) :
                   ret.valor[i].num = 0 /\ ret.valor[i].den # 0

\* a forecast of several values asked of orders none of which can be
\* dated
C12_Witness ==
    /\ op = "previsao_vendas_simples"
    /\ Len(pedidos) >= 2
    /\ \A i \in 1..Len(pedidos) : ~TimestampParses(pedidos[i])
    /\ args.dias_futuros = MaxFuturos
    /\ Len(ret.valor) = MaxFuturos

\* An order that cannot be dated: its timestamp is missing, or is a text
\* that is empty or not an ISO-8601 date.
SemData(p) ==
    \/ "data_pedido" \notin DOMAIN p
    \/ (p.data_pedido.tipo = "str" /\ ~TimestampParses(p))

ComData(p) == ~SemData(p)

\* C13: an order whose timestamp is missing or is an unparseable text
\* still adds its value (its line items' unit price times quantity, or
\* its total_value when it has no line items) to calcular_vendas_totais,
\* is counted in total_pedidos and enters the values that
\* calcular_estatisticas_avancadas averages, while horarios_pico and
\* dias_semana_performance are what they would be without it.
C13_UndatedOrders ==
    /\ op = "calcular_vendas_totais" =>
           ret.valor = calcular_vendas_totais(SelectSeq(pedidos, ComData))
                       + VendasDeclaradas(SelectSeq(pedidos, SemData))
    /\ (op = "calcular_metricas_principais" /\ pedidos # <<>>) =>
           ret.valor.total_pedidos = Len(pedidos)
    /\ (op = "calcular_estatisticas_avancadas" /\ pedidos # <<>>) =>
           LET Todos(p) == TRUE
           IN  MesmaFracao(ret.valor.media_valor_pedido,
                           [num |-> SomaValorTotal(pedidos, Todos),
                            den |-> Len(pedidos)])
    /\ op = "horarios_pico" =>
           ret.valor = horarios_pico(SelectSeq(pedidos, ComData))
    /\ op = "dias_semana_performance" =>
           ret.valor = dias_semana_performance(SelectSeq(pedidos, ComData))

\* A record whose timestamp fails to parse: a text, not empty, that is
\* not an ISO-8601 date.
FalhaAoConverter(p) ==
    /\ "data_pedido" \in DOMAIN p
    /\ p.data_pedido.tipo = "str"
    /\ p.data_pedido.forma # "vazia"
    /\ ~TimestampParses(p)

Converte(p) == ~FalhaAoConverter(p)

\* C14: each time-keyed operation (agrupar_por_periodo, horarios_pico,
\* dias_semana_performance, analise_sazonalidade,
\* calcular_crescimento_vendas, analise_tendencia_vendas) raises nothing
\* on a batch holding records whose timestamp fails to parse, and returns
\* what it returns on the batch without those records: they are skipped
\* and the records after them are processed.
C14_FailingRecordSkipped ==
    LET limpo == SelectSeq(pedidos, Converte)
    IN  /\ op = "agrupar_por_periodo" =>
               ret = Ok(agrupar_por_periodo(limpo, args.tipo_periodo))
        /\ op = "horarios_pico" => ret = Ok(horarios_pico(limpo))
        /\ op = "dias_semana_performance" =>
               ret = Ok(dias_semana_performance(limpo))
        /\ op = "analise_sazonalidade" =>
               ret = Ok(analise_sazonalidade(limpo, args.meses))
        /\ op = "calcular_crescimento_vendas" =>
               /\ ret.erro = ""
               /\ ret = calcular_crescimento_vendas(limpo, args.dias,
                                                    args.agora)
        /\ op = "analise_tendencia_vendas" =>
               ret = Ok(analise_tendencia_vendas(limpo, args.dias,
                                                 args.agora))

\* a grouping of a batch in which a record that fails to parse comes
\* before a record that is grouped
C14_Witness ==
    /\ op = "agrupar_por_periodo"
    /\ \E i, j \in 1..Len(pedidos) :
           /\ i < j
           /\ FalhaAoConverter(pedidos[i])
           /\ TimestampParses(pedidos[j])
    /\ ret.valor # <<>>

\* the order's timestamp parses and is inside the trailing window of the
\* call the state records
NaJanela(p) ==
    /\ TimestampParses(p)
    /\ Instante(p) >= args.agora - 24 * args.dias

\* C15: analise_tendencia_vendas returns tendencia 'estavel' with
\* crescimento_diario 0.0 whenever the orders inside the trailing window
\* fall on fewer than 2 distinct calendar days, none at all included,
\* however many orders there are.
C15_FewDaysStable ==
    (op = "analise_tendencia_vendas"
        /\ Cardinality(DiasDoLote(pedidos, NaJanela)) < 2) =>
            /\ ret.erro = ""
            /\ DOMAIN ret.valor = {"tendencia", "crescimento_diario"}
            /\ ret.valor.tendencia = "estavel"
            /\ ret.valor.crescimento_diario.num = 0
            /\ ret.valor.crescimento_diario.den # 0

\* a trend asked of a batch with several orders inside the window, all
\* on one day, and an order of another day outside it
C15_Witness ==
    /\ op = "analise_tendencia_vendas"
    /\ Cardinality(DiasDoLote(pedidos, NaJanela)) = 1
    /\ Cardinality({i \in 1..Len(pedidos) : NaJanela(pedidos[i])}) >= 2
    /\ Cardinality(DiasDoLote(pedidos, TimestampParses)) >= 2
    /\ ret.valor.tendencia = "estavel"

\* f(0) + ... + f(n - 1)
SomaAte(n, f(_)) ==
    LET soma[i \in 0..n] == IF i = 0 THEN 0 ELSE soma[i - 1] + f(i - 1)
    IN  soma[n]

\* C16: when the trailing window (the orders whose timestamp parses and
\* is >= now - dias) holds at least 2 daily buckets,
\* analise_tendencia_vendas reports as crescimento_diario the
\* least-squares slope of the buckets' values against their 0-based
\* positions in day order, and as tendencia 'crescente', 'decrescente'
\* or 'estavel' as that slope is > 0, < 0 or 0.
C16_TrendSlope ==
    LET D == DiasDoLote(pedidos, NaJanela)
        n == Cardinality(D)
        Dia(k) == CHOOSE d \in D :
                      Cardinality({e \in D : DiaAntes(e, d)}) = k
        X(k) == k
        Y(k) == SomaDosDias(pedidos, NaJanela, {Dia(k)})
        XY(k) == k * Y(k)
        XX(k) == k * k
        num == n * SomaAte(n, XY) - SomaAte(n, X) * SomaAte(n, Y)
        den == n * SomaAte(n, XX) - SomaAte(n, X) * SomaAte(n, X)
    IN  (op = "analise_tendencia_vendas" /\ n >= 2) =>
            /\ ret.valor.tendencia = IF num > 0 THEN "crescente"
                                     ELSE IF num < 0 THEN "decrescente"
                                     ELSE "estavel"
            /\ MesmaFracao(ret.valor.crescimento_diario,
                           [num |-> num, den |-> den])

\* the total_value field of an order, 0 when it has none
ValorTotal(p) == IF "valor_total" \in DOMAIN p THEN p.valor_total ELSE 0

\* the id, value and timestamp of one order, as a report names them
Descreve(resumo, p) ==
    /\ resumo.id = (IF "id" \in DOMAIN p THEN p.id ELSE None)
    /\ resumo.valor = ValorTotal(p)
    /\ resumo.data = (IF "data_pedido" \in DOMAIN p THEN p.data_pedido
                      ELSE None)

\* C17: for a non-empty batch calcular_estatisticas_avancadas reports as
\* maior_pedido the id, valor and data of one order whose total_value is
\* >= that of every order, and as menor_pedido those of one order whose
\* total_value is <= that of every order; the values compared and
\* reported are the total_value fields, not line-item sums.
C17_ExtremeOrders ==
    (op = "calcular_estatisticas_avancadas" /\ pedidos # <<>>) =>
        /\ \E i \in 1..Len(pedidos) :
               /\ Descreve(ret.valor.maior_pedido, pedidos[i])
               /\ \A j \in 1..Len(pedidos) :
                      ValorTotal(pedidos[i]) >= ValorTotal(pedidos[j])
        /\ \E i \in 1..Len(pedidos) :
               /\ Descreve(ret.valor.menor_pedido, pedidos[i])
               /\ \A j \in 1..Len(pedidos) :
                      ValorTotal(pedidos[i]) <= ValorTotal(pedidos[j])

\* statistics of a batch in which an order other than the reported
\* maximum has line items worth more than the maximum's total_value
C17_Witness ==
    /\ op = "calcular_estatisticas_avancadas"
    /\ Len(pedidos) >= 2
    /\ ret.valor.maior_pedido # ret.valor.menor_pedido
    /\ \E i \in 1..Len(pedidos) :
           /\ TemLinhas(pedidos[i])
           /\ pedidos[i].id # ret.valor.maior_pedido.id
           /\ SomaLinhas(pedidos[i].itens) > ret.valor.maior_pedido.valor

\* C18: on a batch of exactly one order calcular_estatisticas_avancadas
\* raises nothing and returns desvio_padrao_valor 0, a mean and a median
\* equal to the order's total_value, and that order as both maior_pedido
\* and menor_pedido.
C18_SingleOrder ==
    (op = "calcular_estatisticas_avancadas" /\ Len(pedidos) = 1) =>
        LET um == [num |-> ValorTotal(pedidos[1]), den |-> 1]
        IN  /\ ret.erro = ""
            /\ ret.valor.desvio_padrao_valor.raiz_de.num = 0
            /\ ret.valor.desvio_padrao_valor.raiz_de.den # 0
            /\ MesmaFracao(ret.valor.media_valor_pedido, um)
            /\ MesmaFracao(ret.valor.mediana_valor_pedido, um)
            /\ Descreve(ret.valor.maior_pedido, pedidos[1])
            /\ Descreve(ret.valor.menor_pedido, pedidos[1])

\* statistics of a batch of one order of non-zero value
C18_Witness ==
    /\ op = "calcular_estatisticas_avancadas"
    /\ Len(pedidos) = 1
    /\ ret.valor.media_valor_pedido.num > 0
    /\ ret.valor.maior_pedido = ret.valor.menor_pedido

\* the orders of the batch with a parseable timestamp placed in hour h
PedidosNaHora(lote, h) ==
    {i \in 1..Len(lote) :
        TimestampParses(lote[i]) /\ lote[i].data_pedido.hora = h}

\* C19: horarios_pico returns a mapping whose keys are integers of 0..23
\* in ascending order, one for each hour in which an order with a
\* parseable timestamp was placed and no other; each value is the number
\* of those orders, which is >= 1, and the values sum to the number of
\* orders with a parseable timestamp.
C19_HourHistogram ==
    op = "horarios_pico" =>
        LET h == ret.valor
        IN  /\ \A i \in 1..Len(h) :
                   /\ h[i][1] \in 0..23
                   /\ h[i][2] >= 1
                   /\ h[i][2] = Cardinality(PedidosNaHora(pedidos, h[i][1]))
            /\ \A i, j \in 1..Len(h) : i < j => h[i][1] < h[j][1]
            /\ {h[i][1] : i \in 1..Len(h)}
                   = {k \in 0..23 : PedidosNaHora(pedidos, k) # {}}
            /\ SumSeq([i \in 1..Len(h) |-> h[i][2]])
                   = Cardinality({i \in 1..Len(pedidos) :
                                     TimestampParses(pedidos[i])})

\* a histogram of several hours, one of them with several orders, for a
\* batch that holds an order that cannot be dated and whose orders are
\* not in the order of their hours
C19_Witness ==
    /\ op = "horarios_pico"
    /\ Len(ret.valor) >= 3
    /\ \E i \in 1..Len(ret.valor) : ret.valor[i][2] >= 2
    /\ \E i \in 1..Len(pedidos) : ~TimestampParses(pedidos[i])
    /\ \E i, j \in 1..Len(pedidos) :
           /\ i < j
           /\ TimestampParses(pedidos[i])
           /\ TimestampParses(pedidos[j])
           /\ pedidos[i].data_pedido.hora > pedidos[j].data_pedido.hora

\* The weekday of a calendar day <<year, month, day>>, 0 for Sunday to 6
\* for Saturday, by the month-offset rule of the Gregorian calendar.
DiaDaSemana(d) ==
    LET y == IF d[2] < 3 THEN d[1] - 1 ELSE d[1]
        t == <<0, 3, 2, 5, 0, 3, 5, 1, 4, 6, 2, 4>>
    IN  (y + y \div 4 - y \div 100 + y \div 400 + t[d[2]] + d[3]) % 7

NomeDoDia(d) ==
    <<"Sunday", "Monday", "Tuesday", "Wednesday", "Thursday", "Friday",
      "Saturday">>[DiaDaSemana(d) + 1]

\* C20: dias_semana_performance returns a mapping of at most 7 keys, a
\* weekday name being a key exactly when an order with a parseable
\* timestamp falls on that weekday; each value is the sum of total_value
\* of the orders of that weekday, and so the values sum to the
\* total_value of the orders with a parseable timestamp.
C20_WeekdayPerformance ==
    op = "dias_semana_performance" =>
        LET v == ret.valor
        IN  /\ Len(v) <= 7
            /\ \A i, j \in 1..Len(v) : i # j => v[i][1] # v[j][1]
            /\ {v[i][1] : i \in 1..Len(v)}
                   = {NomeDoDia(d) : d \in DiasDoLote(pedidos, TimestampParses)}
            /\ \A i \in 1..Len(v) :
                   v[i][2] = SomaDosDias(pedidos, TimestampParses,
                                 {d \in DiasDoLote(pedidos, TimestampParses) :
                                     NomeDoDia(d) = v[i][1]})
            /\ SumSeq([i \in 1..Len(v) |-> v[i][2]])
                   = SomaValorTotal(pedidos, TimestampParses)

\* a weekday table of several weekdays, one of them holding orders of two
\* different dates, for a batch that holds an order that cannot be dated
C20_Witness ==
    /\ op = "dias_semana_performance"
    /\ Len(ret.valor) >= 3
    /\ \E i \in 1..Len(pedidos) : ~TimestampParses(pedidos[i])
    /\ \E d, e \in DiasDoLote(pedidos, TimestampParses) :
           d # e /\ NomeDoDia(d) = NomeDoDia(e)

NomeDoMes(m) ==
    <<"January", "February", "March", "April", "May", "June", "July",
      "August", "September", "October", "November", "December">>[m]

\* C21: analise_sazonalidade does not use its `meses` argument: whatever
\* its value, the result is the mapping that holds, for each calendar
\* month name on which an order with a parseable timestamp falls, the sum
\* of total_value of the orders of that month, of whatever year.
C21_SeasonalityIgnoresMonths ==
    op = "analise_sazonalidade" =>
        LET v == ret.valor
        IN  /\ \A m \in {1, args.meses, MesesPadrao} :
                   ret = Ok(analise_sazonalidade(pedidos, m))
            /\ \A i, j \in 1..Len(v) : i # j => v[i][1] # v[j][1]
            /\ {v[i][1] : i \in 1..Len(v)}
                   = {NomeDoMes(d[2]) :
                         d \in DiasDoLote(pedidos, TimestampParses)}
            /\ \A i \in 1..Len(v) :
                   LET NoMes(p) ==
                           /\ TimestampParses(p)
                           /\ NomeDoMes(p.data_pedido.mes) = v[i][1]
                   IN  v[i][2] = SomaValorTotal(pedidos, NoMes)

\* a seasonality asked with a `meses` other than the default, of a batch
\* with orders of one month in two different years
C21_Witness ==
    /\ op = "analise_sazonalidade"
    /\ args.meses # MesesPadrao
    /\ Len(ret.valor) >= 2
    /\ \E d, e \in DiasDoLote(pedidos, TimestampParses) :
           d[1] # e[1] /\ d[2] = e[2] /\ d[2] > args.meses

\* C22: the same batch always yields the same report: a call of
\* gerar_relatorio_completo that follows another one on the same batch,
\* however much later, returns a report equal to the first in every
\* field.
C22_SameBatchSameReport ==
    [][(op = "gerar_relatorio_completo" /\ op' = "gerar_relatorio_completo"
           /\ pedidos' = pedidos)
       => ret' = ret]_vars

\* A line item that lacks its name, its price (both price fields) or its
\* quantity.
MalFormada(item) ==
    \/ "nome" \notin DOMAIN item
    \/ ("preco_unitario" \notin DOMAIN item /\ "valor" \notin DOMAIN item)
    \/ "quantidade" \notin DOMAIN item

BemFormada(item) == ~MalFormada(item)

\* the batch with the malformed line items taken out of its orders
SemMalFormadas(lote) ==
    [i \in 1..Len(lote) |->
        IF "itens" \in DOMAIN lote[i]
        THEN [lote[i] EXCEPT !.itens = SelectSeq(lote[i].itens, BemFormada)]
        ELSE lote[i]]

\* the value of the malformed line items of the batch, a missing price
\* taken as 0 and a missing quantity as 1
ValorDasMalFormadas(lote) ==
    LET linhas == SelectSeq(LinhasDoLote(lote), MalFormada)
    IN  SumSeq([i \in 1..Len(linhas) |-> ValorDaLinha(linhas[i])])

\* C23: a line item that lacks name, price or quantity is defaulted, not
\* rejected.  In itens_mais_populares the items without a name are ranked
\* under the one name 'Item sem nome', a missing price counts as 0 and a
\* missing quantity as 1.  In calcular_vendas_totais a malformed item
\* adds its price times its quantity with the same defaults to what the
\* rest of the batch adds.  Neither operation raises.
C23_MalformedItems ==
    /\ op = "itens_mais_populares" =>
           LET linhas == LinhasDoLote(pedidos)
               nomes == NomesDoLote(pedidos)
           IN  /\ ret.erro = ""
               /\ args.limite >= Cardinality(nomes) =>
                      \A nome \in nomes :
                          \E i \in DOMAIN ret.valor :
                              /\ ret.valor[i].nome = nome
                              /\ \A j \in DOMAIN ret.valor :
                                     ret.valor[j].nome = nome => j = i
                              /\ ret.valor[i].quantidade_total
                                     = SomaDasLinhas(linhas, nome,
                                                     QuantidadeDaLinha)
                              /\ ret.valor[i].valor_total
                                     = SomaDasLinhas(linhas, nome, ValorDaLinha)
    /\ op = "calcular_vendas_totais" =>
           /\ ret.erro = ""
           /\ ret.valor = calcular_vendas_totais(SemMalFormadas(pedidos))
                          + ValorDasMalFormadas(pedidos)

\* C24: gerar_relatorio_completo never raises: whatever the batch, records
\* with missing or null fields, unparseable or timezone-qualified
\* timestamps and absent or malformed line items included, the call
\* returns a report.
C24_ReportNeverRaises ==
    op = "gerar_relatorio_completo" => ret.erro = ""

\* C25: no operation modifies its input: through any sequence of calls
\* the batch holds the same records in the same order, each with the same
\* fields, values and line items.
C25_InputUnchanged == [][pedidos' = pedidos]_vars

\* a ranking cut by its limit and led by a name that is not the first of
\* the batch, returned for a batch that still holds all its records
C25_Witness ==
    /\ op = "itens_mais_populares"
    /\ Len(pedidos) = MaxPedidos
    /\ args.limite >= 1
    /\ args.limite < Cardinality(NomesDoLote(pedidos))
    /\ Len(ret.valor) = args.limite
    /\ ret.valor[1].nome # NomeDaLinha(LinhasDoLote(pedidos)[1])

\* C26: gerar_relatorio_completo returns a report with the sections
\* metricas_principais, estatisticas_avancadas, tendencia_vendas,
\* previsao_vendas, horarios_pico, dias_semana_performance,
\* itens_mais_vendidos, vendas_por_dia, vendas_por_semana, vendas_por_mes
\* and data_geracao, each equal to what the standalone operation returns
\* on the same batch with its default arguments (window of 30 days,
\* horizon of 7, limit of 10).
C26_ReportSections ==
    op = "gerar_relatorio_completo" =>
        LET r == ret.valor
        IN  /\ ret.erro = ""
            /\ DOMAIN r = {"metricas_principais", "estatisticas_avancadas",
                           "tendencia_vendas", "previsao_vendas",
                           "horarios_pico", "dias_semana_performance",
                           "itens_mais_vendidos", "vendas_por_dia",
                           "vendas_por_semana", "vendas_por_mes",
                           "data_geracao"}
            /\ Ok(r.metricas_principais)
                   = calcular_metricas_principais(pedidos, args.agora)
            /\ r.estatisticas_avancadas
                   = calcular_estatisticas_avancadas(pedidos)
            /\ r.tendencia_vendas
                   = analise_tendencia_vendas(pedidos, 30, args.agora)
            /\ r.previsao_vendas = previsao_vendas_simples(pedidos, 7)
            /\ r.horarios_pico = horarios_pico(pedidos)
            /\ r.dias_semana_performance = dias_semana_performance(pedidos)
            /\ r.itens_mais_vendidos = itens_mais_populares(pedidos, 10)
            /\ r.vendas_por_dia = agrupar_por_periodo(pedidos, "dia")
            /\ r.vendas_por_semana = agrupar_por_periodo(pedidos, "semana")
            /\ r.vendas_por_mes = agrupar_por_periodo(pedidos, "mes")
            /\ r.data_geracao = args.agora

\* a report whose ranking is longer than any limit the ranking is
\* otherwise asked with, whose trend is not flat and whose forecast is
\* not zero
C26_Witness ==
    /\ op = "gerar_relatorio_completo"
    /\ ret.erro = ""
    /\ Len(ret.valor.itens_mais_vendidos) > MaxLimite
    /\ ret.valor.tendencia_vendas.tendencia # "estavel"
    /\ Len(ret.valor.previsao_vendas) = 7
    /\ ret.valor.previsao_vendas[1].num > 0
    /\ ret.valor.vendas_por_semana # <<>>

\* C27: the sales total and the item ranking agree on line-item value:
\* for a batch in which every order has line items,
\* calcular_vendas_totais is the sum of valor_total over the complete
\* ranking that itens_mais_populares returns with a limit of at least the
\* number of distinct item names.
C27_TotalMatchesRanking ==
    (op = "calcular_vendas_totais"
        /\ \A i \in 1..Len(pedidos) : TemLinhas(pedidos[i])) =>
            LET n == Cardinality(NomesDoLote(pedidos))
                ranking == itens_mais_populares(pedidos, n)
            IN  /\ ret.erro = ""
                /\ Len(ranking) = n
                /\ ret.valor
                       = SumSeq([i \in 1..n |-> ranking[i].valor_total])

\* no order of the batch carries line items and every timestamp parses
SoTotaisDatados(lote) ==
    \A i \in 1..Len(lote) :
        "itens" \notin DOMAIN lote[i] /\ TimestampParses(lote[i])

SomaDosBaldes(mapa) == SumSeq([i \in 1..Len(mapa) |-> mapa[i][2]])

RespostaFalhou(r) ==
    r.tipo \in {"ConnectionError", "Timeout", "HTTPError", "Exception",
                "nao_json"}

\* what a request that did not fail hands to the caller
Entregue(r) ==
    IF r.tipo = "json" THEN Ok(r.corpo)
    ELSE IF r.tipo = "corpo_invalido"
         THEN Ok([tipo |-> "dict", chaves |-> {"status", "message"}])
    ELSE [erro |-> "RecursionError", valor |-> [tipo |-> "None"]]

\* C29: get_pedidos never lets an APIError out and keeps its fallback
\* order: the first request goes to /api/pedidos; /pedidos is requested
\* only after /api/pedidos failed; the mock orders are returned only
\* after both requests failed; the result is the response of the first
\* request that did not fail, and no request follows it.
C29_FallbackOrder ==
    cliente.metodo = "get_pedidos" =>
        LET log == cliente.log
            n == Len(log)
        IN  /\ cliente.ret.erro # "APIError"
            /\ n <= 2
            /\ n >= 1 => log[1].endpoint = "/api/pedidos"
            /\ n = 2 => log[2].endpoint = "/pedidos"
            /\ \A k \in 1..(n - 1) : RespostaFalhou(log[k].resposta)
            /\ cliente.pc # "fim" =>
                   /\ \A k \in 1..n : RespostaFalhou(log[k].resposta)
                   /\ cliente.pc = "primeiro" <=> n = 0
                   /\ cliente.pc = "segundo" <=> n = 1
                   /\ cliente.pc = "mock" <=> n = 2
            /\ (cliente.pc = "fim" /\ cliente.origem = "mock") =>
                   /\ n = 2
                   /\ \A k \in 1..2 : RespostaFalhou(log[k].resposta)
                   /\ cliente.ret.erro = ""
                   /\ cliente.ret.valor.tipo = "list"
            /\ (cliente.pc = "fim" /\ cliente.origem # "mock") =>
                   /\ n >= 1
                   /\ ~RespostaFalhou(log[n].resposta)
                   /\ cliente.origem = log[n].endpoint
                   /\ cliente.ret = Entregue(log[n].resposta)

\* both requests failed and the mock orders came back
C29_Witness ==
    /\ cliente.metodo = "get_pedidos"
    /\ cliente.pc = "fim"
    /\ cliente.origem = "mock"
    /\ Len(cliente.log) = 2
    /\ cliente.log[1].resposta.tipo = "Timeout"
    /\ cliente.log[2].resposta.tipo = "nao_json"

\* no worker is started while a load is in flight: the button is
\* disabled from load_initial_data until a slot has run
EmVoo ==
    \/ painel.worker \in {"iniciado", "get_pedidos", "get_itens"}
    \/ painel.sinal # "nenhum"

UmWorkerPorCarga ==
    /\ painel.iniciados = painel.cargas
    /\ EmVoo => ~painel.refresh_btn

\* a worker emits one signal, after which it is over
UmSinalPorWorker ==
    painel.sinal # "nenhum" => painel.worker = "terminado"

\* C30: every load completes its cycle: the refresh button, disabled by
\* load_initial_data, is enabled again by the slot of the signal the
\* worker emits, so it is never left disabled for good.
C30_ButtonComesBack ==
    (painel.refresh_btn = FALSE) ~> (painel.refresh_btn = TRUE)

====
